---- MODULE Spec2Model ----
(***************************************************************************)
(* Model of the search tutorial's RAG pipeline (search-tutorial/python):   *)
(* the shared TokenManager (auth.py), the search and RAG helpers           *)
(* (search_advanced.py), the limit normalisation (utils.py) and the proxy  *)
(* server route /api/search/rag (server.py).                               *)
(*                                                                         *)
(* Time is counted in ticks of 1/SubSec second, so that int(time.time())   *)
(* (a truncation) and the float comparison of is_token_expired differ.     *)
(* Strings are sequences of pieces (characters or atomic fragments).       *)
(***************************************************************************)
EXTENDS Integers, Sequences, FiniteSets, TLC

VARIABLES
    now,                \* time.time(), in ticks of 1/SubSec second
    access_token_info,  \* TokenManager.access_token_info (auth.py:31)
    issued,             \* access tokens the token endpoint has issued so far
    env,                \* config.py values parsed from the environment
    run,                \* per worker thread: the request it is serving
    call,               \* arguments of a direct call of a pure function
    ret,                \* result of that call
    script              \* state of a stand-alone tutorial script being run

vars == <<now, access_token_info, issued, env, run, call, ret, script>>

----------------------------------------------------------------------------
\* Bounds of the model

\* ticks per second
SubSec == 2
\* last tick the clock reaches
MaxNow == 3
\* access tokens the token endpoint issues at most
MaxTokens == 2
\* longest snippet text handed to extract_snippets directly
MaxLen == 2
\* longest result list handed to extract_snippets directly
MaxResults == 2
\* longest string handed to normalize_limit directly
MaxStrLen == 3

\* Longest result list given to the sort of search()
MaxSortLen == 3

\* server worker threads sharing the module-level token_manager
\* (server.py:37): one thread, or two serving requests concurrently
OneWorker == {"w1"}
TwoWorkers == {"w1", "w2"}

\* expires_in values the token endpoint may answer with
ExpiresIns == {30, 60, 61}

Chars == {"a", "b"}

----------------------------------------------------------------------------
\* Generic helpers

Min(a, b) == IF a <= b THEN a ELSE b
Max(a, b) == IF a >= b THEN a ELSE b

\* All sequences over S of length at most n
SeqsUpTo(S, n) == UNION {[1..k -> S] : k \in 0..n}

\* Python slice s[:n] of a sequence: n >= 0 keeps the first n elements,
\* n < 0 drops the last -n elements.
SliceTo(s, n) ==
    LET stop == IF n >= 0 THEN Min(n, Len(s)) ELSE Max(Len(s) + n, 0)
    IN  SubSeq(s, 1, stop)

\* sep.join(parts) for a sequence of strings
RECURSIVE Join(_, _)
Join(sep, parts) ==
    IF parts = <<>> THEN <<>>
    ELSE IF Len(parts) = 1 THEN parts[1]
    ELSE parts[1] \o sep \o Join(sep, Tail(parts))

DigitStr == <<"0", "1", "2", "3", "4", "5", "6", "7", "8", "9">>

\* str(i) for a natural number i
RECURSIVE IntStr(_)
IntStr(i) ==
    IF i < 10 THEN <<DigitStr[i + 1]>>
    ELSE IntStr(i \div 10) \o <<DigitStr[(i % 10) + 1]>>

----------------------------------------------------------------------------
\* utils.py / config.py: integer parsing

\* Python values that can reach int(): an int, a float (in tenths), a
\* string, None, a float infinity, a list.
IntVal(n)   == [t |-> "int",   n |-> n, s |-> <<>>]
FloatVal(n) == [t |-> "float", n |-> n, s |-> <<>>]
StrVal(s)   == [t |-> "str",   n |-> 0, s |-> s]
NoneVal     == [t |-> "none",  n |-> 0, s |-> <<>>]
InfVal      == [t |-> "inf",   n |-> 0, s |-> <<>>]
ListVal     == [t |-> "list",  n |-> 0, s |-> <<>>]

DigitVal(c) ==
    CASE c = "0" -> 0 [] c = "1" -> 1 [] c = "2" -> 2 [] c = "3" -> 3
      [] c = "4" -> 4 [] c = "5" -> 5 [] c = "6" -> 6 [] c = "7" -> 7
      [] c = "8" -> 8 [] c = "9" -> 9 [] OTHER -> -1

IsDigits(s) == Len(s) > 0 /\ \A i \in 1..Len(s) : DigitVal(s[i]) >= 0

RECURSIVE DigitsValue(_)
DigitsValue(s) ==
    IF s = <<>> THEN 0
    ELSE 10 * DigitsValue(SubSeq(s, 1, Len(s) - 1)) + DigitVal(s[Len(s)])

\* int(value): [ok |-> TRUE, n] or the exception raised
PyInt(value) ==
    CASE value.t = "int" -> [ok |-> TRUE, n |-> value.n, exc |-> ""]
      [] value.t = "float" ->
            \* truncation toward zero of a value given in tenths
            [ok |-> TRUE,
             n |-> IF value.n >= 0 THEN value.n \div 10 ELSE -((-value.n) \div 10),
             exc |-> ""]
      [] value.t = "str" ->
            LET s == value.s
                neg == Len(s) > 0 /\ s[1] \in {"-", "+"}
                body == IF neg THEN Tail(s) ELSE s
            IN  IF IsDigits(body)
                THEN [ok |-> TRUE,
                      n |-> IF neg /\ s[1] = "-" THEN -DigitsValue(body)
                            ELSE DigitsValue(body),
                      exc |-> ""]
                ELSE [ok |-> FALSE, n |-> 0, exc |-> "ValueError"]
      [] value.t = "inf" -> [ok |-> FALSE, n |-> 0, exc |-> "OverflowError"]
      [] OTHER -> [ok |-> FALSE, n |-> 0, exc |-> "TypeError"]

\* normalize_limit without the lower clamp (a fault the properties detect)
normalize_limit_mut(value, fallback, minimum, maximum) ==
    LET p == PyInt(value)
    IN  IF ~p.ok /\ p.exc \in {"TypeError", "ValueError"}
        THEN [ok |-> TRUE, n |-> fallback, exc |-> ""]
        ELSE IF ~p.ok THEN p
        ELSE [ok |-> TRUE, n |-> Min(p.n, maximum), exc |-> ""]

\* utils.normalize_limit(value, fallback, minimum, maximum):
\* [ok |-> TRUE, n] or the exception that escapes
normalize_limit(value, fallback, minimum, maximum) ==
    LET p == PyInt(value)
    IN  IF ~p.ok /\ p.exc \in {"TypeError", "ValueError"}
        THEN [ok |-> TRUE, n |-> fallback, exc |-> ""]
        ELSE IF ~p.ok THEN p
        ELSE [ok |-> TRUE, n |-> Max(minimum, Min(p.n, maximum)), exc |-> ""]

\* default arguments of normalize_limit
LimitMinimum == 1
LimitMaximum == 100

\* A parameter the caller did not supply
Missing == [t |-> "missing", n |-> 0, s |-> <<>>]

\* The limit each entry point puts in the search payload for the raw value
\* the user gave: search_basic.py:136, search_advanced.py:363 and 367,
\* server.py:65 and 83
entry_limit(entry, raw) ==
    LET given(fallback) ==
            IF raw = Missing THEN [ok |-> TRUE, n |-> fallback, exc |-> ""]
            ELSE normalize_limit(raw, fallback, LimitMinimum, LimitMaximum)
    IN  CASE entry = "search_basic" -> given(10)
          [] entry = "search_advanced filter" -> given(10)
          [] entry = "search_advanced rag" -> given(5)
          [] entry = "api_search" ->
                normalize_limit(
                    IF raw = Missing THEN StrVal(<<"1", "0">>) ELSE raw,
                    10, LimitMinimum, LimitMaximum)
          [] entry = "api_rag" ->
                normalize_limit(IF raw = Missing THEN IntVal(5) ELSE raw,
                                5, LimitMinimum, LimitMaximum)

\* config._parse_env_int(value, fallback)
parse_env_int(value, fallback) ==
    LET p == PyInt(value)
    IN  IF ~p.ok /\ p.exc \in {"TypeError", "ValueError"} THEN fallback
        ELSE p.n

\* config.py defaults
DefaultMaxSnippets == 5
DefaultMaxChars == 350

----------------------------------------------------------------------------
\* auth.py: TokenManager

\* seconds of safety buffer in is_token_expired
TokenBuffer == 60

\* access_token_info = {} (auth.py:31)
EmptyInfo ==
    [empty |-> TRUE, has_access_token |-> FALSE, access_token |-> 0,
     has_expires_at |-> FALSE, expires_at |-> 0]

\* int(time.time()) at tick t
IntTime(t) == t \div SubSec

\* is_token_expired without the buffer (a fault the properties detect)
is_token_expired_mut(info, t) ==
    info.empty \/ ~info.has_expires_at \/ t > info.expires_at * SubSec

\* TokenManager.is_token_expired at tick t:
\* time.time() > expires_at - 60, i.e. t / SubSec > expires_at - 60
is_token_expired(info, t) ==
    info.empty \/ ~info.has_expires_at
        \/ t > (info.expires_at - TokenBuffer) * SubSec

\* Answers of the token endpoint: a non-success status (or transport
\* failure), or a JSON body that may lack access_token or expires_in.
TokenReply(ok, hasTok, hasExp, e) ==
    [ok |-> ok, has_access_token |-> hasTok, has_expires_in |-> hasExp,
     expires_in |-> e]

TokenReplies ==
    {TokenReply(FALSE, FALSE, FALSE, 0)}
        \cup {TokenReply(TRUE, TRUE, TRUE, e) : e \in ExpiresIns}
        \cup {TokenReply(TRUE, FALSE, TRUE, 61), TokenReply(TRUE, TRUE, FALSE, 0)}

\* a grant that updates the cached credential in place, field by field,
\* so that a field the body lacks keeps its old value (a fault the
\* properties detect)
get_access_token_mut(info, reply, t, tok) ==
    IF ~reply.ok
    THEN [exc |-> "Exception: Failed to obtain access token", info |-> info]
    ELSE IF ~reply.has_expires_in
    THEN [exc |-> "KeyError: expires_in", info |-> info]
    ELSE [exc |-> "",
          info |-> [empty |-> FALSE,
                    has_access_token |->
                        reply.has_access_token \/ info.has_access_token,
                    access_token |-> IF reply.has_access_token THEN tok
                                     ELSE info.access_token,
                    has_expires_at |-> TRUE,
                    expires_at |-> IntTime(t) + reply.expires_in]]

\* a grant that stores the body before it reads expires_in (a fault the
\* properties detect)
get_access_token_early(info, reply, t, tok) ==
    IF ~reply.ok
    THEN [exc |-> "Exception: Failed to obtain access token", info |-> info]
    ELSE IF ~reply.has_expires_in
    THEN [exc |-> "KeyError: expires_in",
          info |-> [empty |-> FALSE,
                    has_access_token |-> reply.has_access_token,
                    access_token |-> IF reply.has_access_token THEN tok ELSE 0,
                    has_expires_at |-> FALSE,
                    expires_at |-> 0]]
    ELSE [exc |-> "",
          info |-> [empty |-> FALSE,
                    has_access_token |-> reply.has_access_token,
                    access_token |-> IF reply.has_access_token THEN tok ELSE 0,
                    has_expires_at |-> TRUE,
                    expires_at |-> IntTime(t) + reply.expires_in]]

\* TokenManager.get_access_token from the response on: the exception raised
\* ("" when none) and the value of self.access_token_info afterwards.
\* tok is the access_token string of the body, t the tick of line 49.
get_access_token(info, reply, t, tok) ==
    IF ~reply.ok
    THEN [exc |-> "Exception: Failed to obtain access token", info |-> info]
    ELSE IF ~reply.has_expires_in
    THEN [exc |-> "KeyError: expires_in", info |-> info]
    ELSE [exc |-> "",
          info |-> [empty |-> FALSE,
                    has_access_token |-> reply.has_access_token,
                    access_token |-> IF reply.has_access_token THEN tok ELSE 0,
                    has_expires_at |-> TRUE,
                    expires_at |-> IntTime(t) + reply.expires_in]]

\* self.access_token_info['access_token'] (auth.py:66)
read_access_token(info) ==
    IF ~info.empty /\ info.has_access_token
    THEN [exc |-> "", token |-> info.access_token]
    ELSE [exc |-> "KeyError: access_token", token |-> 0]

----------------------------------------------------------------------------
\* search_advanced.py: search results, RAGHelper

Absent == "<absent>"

StrSnip(s) == [k |-> "str", v |-> s]
AbsentSnip == [k |-> "absent", v |-> <<>>]
NullSnip   == [k |-> "null", v |-> <<>>]

\* One element of results['data']; certainty in tenths, -1 when absent
Result(hasProps, title, type, snip, cert) ==
    [has_props |-> hasProps, item_title |-> title, type |-> type,
     snippet |-> snip, certainty |-> cert]

\* A decoded search response body: data is a list, absent, or null
Body(kind, data) == [data_kind |-> kind, data |-> data]
\* no response decoded yet
NoBody == Body("unset", <<>>)

\* a no-data test that takes an empty list for data (a fault the
\* properties detect)
no_data_mut(results) == results.data_kind # "list"

\* not results.get('data')
no_data(results) == results.data_kind # "list" \/ results.data = <<>>

\* props.get('snippet', '')[:max_chars_per_snippet]; None[:n] raises
snippet_text(result, max_chars) ==
    IF ~result.has_props \/ result.snippet.k = "absent" THEN <<>>
    ELSE SliceTo(result.snippet.v, max_chars)

snippet_of(result, max_chars) ==
    [text |-> snippet_text(result, max_chars),
     title |-> IF ~result.has_props \/ result.item_title = Absent
               THEN "N/A" ELSE result.item_title,
     type |-> IF ~result.has_props \/ result.type = Absent
              THEN "N/A" ELSE result.type,
     relevance |-> IF result.certainty < 0 THEN 0 ELSE result.certainty]

\* extract_snippets with both slices one too long (a fault the properties
\* detect)
extract_snippets_mut(results, max_snippets, max_chars_per_snippet) ==
    IF no_data(results) THEN [exc |-> "", snippets |-> <<>>]
    ELSE LET taken == SliceTo(results.data, max_snippets + 1)
         IN  IF \E i \in 1..Len(taken) :
                    taken[i].has_props /\ taken[i].snippet.k = "null"
             THEN [exc |-> "TypeError", snippets |-> <<>>]
             ELSE [exc |-> "",
                   snippets |-> [i \in 1..Len(taken) |->
                        snippet_of(taken[i], max_chars_per_snippet + 1)]]

\* RAGHelper.extract_snippets: the list returned, or the exception raised
extract_snippets(results, max_snippets, max_chars_per_snippet) ==
    IF no_data(results) THEN [exc |-> "", snippets |-> <<>>]
    ELSE LET taken == SliceTo(results.data, max_snippets)
         IN  IF \E i \in 1..Len(taken) :
                    taken[i].has_props /\ taken[i].snippet.k = "null"
             THEN [exc |-> "TypeError", snippets |-> <<>>]
             ELSE [exc |-> "",
                   snippets |-> [i \in 1..Len(taken) |->
                        snippet_of(taken[i], max_chars_per_snippet)]]

\* a composition that numbers the sources from 0 (a fault the properties
\* detect)
format_context_mut(snippets) ==
    Join(<<"\n---\n">>,
         [i \in 1..Len(snippets) |->
            <<"[Source ">> \o IntStr(i - 1) \o <<": ", snippets[i].title, " (",
              snippets[i].type, ")]\n">> \o snippets[i].text \o <<"\n">>])

\* RAGHelper.format_context_for_llm
format_context_for_llm(snippets) ==
    Join(<<"\n---\n">>,
         [i \in 1..Len(snippets) |->
            <<"[Source ">> \o IntStr(i) \o <<": ", snippets[i].title, " (",
              snippets[i].type, ")]\n">> \o snippets[i].text \o <<"\n">>])

\* system_prompt values: None (the parameter's default and what
\* body.get("systemPrompt") gives for a body without the field) or a string
NoPrompt == "<None>"

DefaultSystemPrompt ==
    "You are a helpful assistant. Answer the user's question based on the provided context. If the context doesn't contain relevant information, say so honestly."

\* config.py:22
DefaultMaxTokens == 3000

\* a message list with the user message first (a fault the properties
\* detect)
build_payload_mut(query, context, system_prompt) ==
    [messages |->
        <<[role |-> "user",
           content |-> <<"Context:\n">> \o context \o <<"\n\nQuestion: ", query>>],
          [role |-> "system",
           content |-> IF system_prompt \in {NoPrompt, ""}
                       THEN <<DefaultSystemPrompt>> ELSE <<system_prompt>>]>>,
     auto_routing |-> TRUE,
     max_tokens |-> DefaultMaxTokens]

\* The payload of generate_with_context (search_advanced.py:201-224);
\* "if not system_prompt" holds of None and of the empty string
build_payload(query, context, system_prompt) ==
    [messages |->
        <<[role |-> "system",
           content |-> IF system_prompt \in {NoPrompt, ""}
                       THEN <<DefaultSystemPrompt>> ELSE <<system_prompt>>],
          [role |-> "user",
           content |-> <<"Context:\n">> \o context \o <<"\n\nQuestion: ", query>>]>>,
     auto_routing |-> TRUE,
     max_tokens |-> DefaultMaxTokens]

\* Answers of the completions endpoint
GenReplies == {"http_error", "content", "no_choices_key", "empty_choices", "no_content"}

\* result.get('choices', [{}])[0].get('message', {}).get('content', '')
decode_answer(reply) ==
    CASE reply = "content" -> [exc |-> "", text |-> "ANSWER"]
      [] reply = "empty_choices" -> [exc |-> "IndexError", text |-> ""]
      [] OTHER -> [exc |-> "", text |-> ""]

----------------------------------------------------------------------------
\* AdvancedSearchClient.search: the ordering of a successful reply
\* (search_advanced.py:75-83)

\* key=lambda x: x.get('metadata', {}).get('certainty', 0)
cert_key(x) == IF x.certainty < 0 THEN 0 ELSE x.certainty

\* an insertion that puts x before the results of equal key (a fault the
\* properties detect)
RECURSIVE insert_desc_mut(_, _)
insert_desc_mut(s, x) ==
    IF s = <<>> THEN <<x>>
    ELSE IF cert_key(Head(s)) > cert_key(x)
    THEN <<Head(s)>> \o insert_desc_mut(Tail(s), x)
    ELSE <<x>> \o s

RECURSIVE sorted_desc_mut(_)
sorted_desc_mut(data) ==
    IF data = <<>> THEN <<>>
    ELSE insert_desc_mut(sorted_desc_mut(SubSeq(data, 1, Len(data) - 1)),
                         data[Len(data)])

\* x goes behind every result whose key is at least its own
RECURSIVE insert_desc(_, _)
insert_desc(s, x) ==
    IF s = <<>> THEN <<x>>
    ELSE IF cert_key(Head(s)) >= cert_key(x)
    THEN <<Head(s)>> \o insert_desc(Tail(s), x)
    ELSE <<x>> \o s

\* sorted(results['data'], key=..., reverse=True): the results are taken in
\* order and each is inserted into the ordered list built so far
RECURSIVE sorted_desc(_)
sorted_desc(data) ==
    IF data = <<>> THEN <<>>
    ELSE insert_desc(sorted_desc(SubSeq(data, 1, Len(data) - 1)),
                     data[Len(data)])

\* result.get('properties', {}).get('type'): Absent stands for None
type_of(result) ==
    IF ~result.has_props THEN Absent ELSE result.type

\* t in content_types
InList(t, content_types) ==
    \E i \in 1..Len(content_types) : content_types[i] = t

\* a filter that returns the data alone and loses the other keys of the
\* results (a fault the properties detect)
filter_by_content_type_mut(results, content_types) ==
    IF no_data(results) THEN results
    ELSE [results EXCEPT
            !.data = SelectSeq(results.data,
                               LAMBDA x : InList(type_of(x), content_types)),
            !.took = Absent]

\* AdvancedSearchClient.filter_by_content_type (search_advanced.py:103-115)
filter_by_content_type(results, content_types) ==
    IF no_data(results) THEN results
    ELSE [results EXCEPT
            !.data = SelectSeq(results.data,
                               LAMBDA x : InList(type_of(x), content_types))]

DefaultSortBy == "relevance"

SortBys == {"relevance", "certainty"}

\* if sort_by == "certainty" and results.get('data'): ... ; return results
search_sorted(results, sort_by) ==
    IF sort_by = "certainty" /\ ~no_data(results)
    THEN [results EXCEPT !.data = sorted_desc(results.data)]
    ELSE results

----------------------------------------------------------------------------
\* server.py: the /api/search/rag route, one request per worker thread

\* body.get("limit", 5) values of the requests the model sends
RagLimits == {Missing, IntVal(0), IntVal(500), InfVal}

\* A failing answer of the search endpoint: its HTTP status (0 when no
\* response arrived: timeout, connection error) and the "detail" of its
\* JSON body (Absent when the body has none)
Failure(status, detail) == [status |-> status, detail |-> detail]

NoFailure == Failure(-1, Absent)

SearchFailures ==
    {Failure(0, Absent), Failure(500, Absent), Failure(404, "collection not found")}

\* str(e) of the requests exception: raise_for_status() names the status
\* code and the reason phrase, a transport error names its cause
str_of_error(f) ==
    IF f.status = 0 THEN <<"Read timed out.">>
    ELSE IntStr(f.status) \o <<" Error for url: ", "SEARCH_URL">>

\* e.response.text: the body of the failing response
response_text(f) ==
    IF f.detail = Absent THEN <<>> ELSE <<"{\"detail\": \"", f.detail, "\"}">>

\* the except branch of search() (search_advanced.py:85-88,
\* search_basic.py:58-61): what it prints and the message of the Exception
\* it raises, which is all the raised error holds
search_except(f) ==
    [printed |-> IF f.status = 0 THEN <<>>
                 ELSE <<"Search failed with status ">> \o IntStr(f.status)
                        \o <<": ">> \o response_text(f),
     message |-> <<"Search request failed: ">> \o str_of_error(f)]

\* The run r after search() raised on the failing answer f
search_raised(r, f) ==
    [r EXCEPT !.http_fail = f, !.raised = search_except(f).message,
              !.printed = search_except(f).printed]

NoResponse == [status |-> 0, response |-> "", sources |-> <<>>, error |-> ""]

IdleRun ==
    [pc |-> "idle", route |-> "", limit |-> 0, asked_sort |-> DefaultSortBy,
     token |-> 0, results |-> NoBody, basic_results |-> NoBody,
     gen_reply |-> "", http_fail |-> NoFailure, raised |-> <<>>,
     printed |-> <<>>,
     snippets |-> <<>>, context |-> <<>>, response |-> NoResponse,
     exc |-> "", log |-> <<>>]

\* a sources list in the reverse order (a fault the properties detect)
sources_of_mut(snippets) ==
    [i \in 1..Len(snippets) |->
        [title |-> snippets[Len(snippets) + 1 - i].title,
         type |-> snippets[Len(snippets) + 1 - i].type]]

\* sources of the success response (server.py:107)
sources_of(snippets) ==
    [i \in 1..Len(snippets) |->
        [title |-> snippets[i].title, type |-> snippets[i].type]]

\* jsonify({"error": ...}), code
ErrorResponse(code, msg) ==
    [status |-> code, response |-> "", sources |-> <<>>, error |-> msg]

\* an except branch that leaks the sources computed so far (a fault the
\* properties detect)
rag_failed_mut(r, exc) ==
    [r EXCEPT !.pc = "failed", !.exc = exc,
              !.response = [status |-> 500, response |-> "",
                            sources |-> sources_of(r.snippets),
                            error |-> "RAG request failed"]]

\* an except branch that sends a failed search request once more (a fault
\* the properties detect)
rag_failed_retry(r, exc) ==
    IF r.pc = "s_wait"
    THEN [r EXCEPT !.log = @ \o <<"search">>]
    ELSE [r EXCEPT !.pc = "failed", !.exc = exc,
                   !.response = [status |-> 500, response |-> "",
                                 sources |-> <<>>,
                                 error |-> "RAG request failed"]]

\* api_rag's except branch (server.py:109-111): the exception is printed to
\* stderr (kept in exc) and the client gets a fixed message
rag_failed(r, exc) ==
    [r EXCEPT !.pc = "failed", !.exc = exc,
              !.response = ErrorResponse(500, "RAG request failed")]

\* api_search's except branch (server.py:70-72)
search_failed(r, exc) ==
    [r EXCEPT !.pc = "failed", !.exc = exc,
              !.response = ErrorResponse(500, "Search request failed")]

\* The except branch of the route that serves the request of r
route_failed(r, exc) ==
    IF r.route = "search" THEN search_failed(r, exc) ELSE rag_failed(r, exc)

\* request.args.get("limit", "10") values of the requests the model sends
SearchLimits == {Missing, StrVal(<<"0">>)}

\* a client that keeps the token of its last request and skips the check
\* when it holds one (a fault the properties detect)
ensure_check_mut(r, stage, info, t) ==
    IF r.token # 0 THEN [r EXCEPT !.pc = stage \o "_ret"]
    ELSE IF is_token_expired(info, t)
    THEN [r EXCEPT !.pc = stage \o "_grant", !.log = @ \o <<"check", "grant">>]
    ELSE [r EXCEPT !.pc = stage \o "_ret", !.log = @ \o <<"check">>]

\* ensure_valid_token up to its first blocking or shared access
\* (auth.py:64-65): stage is "s" for search, "g" for generate_with_context
ensure_check(r, stage, info, t) ==
    IF is_token_expired(info, t)
    THEN [r EXCEPT !.pc = stage \o "_grant", !.log = @ \o <<"check", "grant">>]
    ELSE [r EXCEPT !.pc = stage \o "_ret", !.log = @ \o <<"check">>]

\* if not results.get("data") (server.py:90)
rag_no_data(results) == no_data(results)

\* min(limit, RAG_CONTEXT_MAX_SNIPPETS) (server.py:94)
snippet_limit(limit, e) == Min(limit, e.max_snippets)

Tick ==
    /\ now < MaxNow
    /\ now' = now + 1
    /\ UNCHANGED <<access_token_info, issued, env, run, call, ret, script>>

\* api_rag from the request to the first token check of search(); the
\* route reads "query", "limit" and "systemPrompt" of the body (server.py:
\* 77-84), askedSort is the ordering the body asks for in "sort_by"
ApiRag(w, hasQuery, rawLimit, askedSort) ==
    /\ run[w].pc = "idle"
    /\ LET r == run[w]
           lim == entry_limit("api_rag", rawLimit)
           checked == ensure_check([r EXCEPT !.route = "rag", !.limit = lim.n,
                                             !.asked_sort = askedSort], "s",
                                   access_token_info, now)
       IN  run' = [run EXCEPT ![w] =
                 IF ~hasQuery
                 THEN [r EXCEPT !.pc = "rejected",
                        !.response = ErrorResponse(400, "Field 'query' is required")]
                 ELSE IF ~lim.ok
                 THEN [r EXCEPT !.pc = "crashed", !.exc = lim.exc,
                        !.response = ErrorResponse(500, "Internal Server Error")]
                 ELSE checked]
    /\ UNCHANGED <<now, access_token_info, issued, env, call, ret, script>>

\* api_search from the request to the token check of SearchClient.search
\* (server.py:58-68, search_basic.py:34)
ApiSearch(w, hasQuery, rawLimit) ==
    /\ run[w].pc = "idle"
    /\ LET r == run[w]
           lim == entry_limit("api_search", rawLimit)
           checked == ensure_check([r EXCEPT !.route = "search", !.limit = lim.n],
                                   "s", access_token_info, now)
       IN  run' = [run EXCEPT ![w] =
                 IF ~hasQuery
                 THEN [r EXCEPT !.pc = "rejected",
                        !.response =
                            ErrorResponse(400, "Query parameter 'q' is required")]
                 ELSE checked]
    /\ UNCHANGED <<now, access_token_info, issued, env, call, ret, script>>

\* The token endpoint answers the grant request of worker w:
\* get_access_token lines 46-54
GrantReply(w, reply) ==
    /\ run[w].pc \in {"s_grant", "g_grant"}
    /\ reply.ok /\ reply.has_access_token => issued < MaxTokens
    /\ LET r == run[w]
           got == get_access_token(access_token_info, reply, now, issued + 1)
       IN  /\ access_token_info' = got.info
           /\ issued' = IF got.exc = "" /\ reply.has_access_token
                        THEN issued + 1 ELSE issued
           /\ run' = [run EXCEPT ![w] =
                 IF got.exc # "" THEN route_failed(r, got.exc)
                 ELSE [r EXCEPT !.pc = IF r.pc = "s_grant" THEN "s_ret" ELSE "g_ret"]]
    /\ UNCHANGED <<now, env, call, ret, script>>

\* ensure_valid_token returns (auth.py:66) and the caller sends its request
\* with the token in the Authorization header
EnsureReturn(w) ==
    /\ run[w].pc \in {"s_ret", "g_ret"}
    /\ LET r == run[w]
           got == read_access_token(access_token_info)
       IN  run' = [run EXCEPT ![w] =
                 IF got.exc # "" THEN route_failed(r, got.exc)
                 ELSE IF r.pc = "s_ret"
                 THEN [r EXCEPT !.pc = "s_wait", !.token = got.token,
                                !.log = @ \o <<"search">>]
                 ELSE [r EXCEPT !.pc = "g_wait", !.token = got.token,
                                !.log = @ \o <<"generate">>]]
    /\ UNCHANGED <<now, access_token_info, issued, env, call, ret, script>>

\* The search endpoint answers: with the JSON body reply when ok, with the
\* failing response reply otherwise. search(query, limit) returns the body in
\* the default ordering and api_rag continues up to the token check of
\* generate_with_context (server.py:88-103, search_advanced.py:72-88)
SearchReply(w, ok, reply) ==
    /\ run[w].pc = "s_wait"
    /\ run[w].route = "rag"
    /\ LET r == run[w]
           body == search_sorted(reply, DefaultSortBy)
           lim == snippet_limit(r.limit, env)
           ex == extract_snippets(body, lim, env.max_chars)
           r1 == [r EXCEPT !.results = body]
           r2 == [r1 EXCEPT !.snippets = ex.snippets,
                            !.context = format_context_for_llm(ex.snippets),
                            !.log = @ \o <<"extract", "compose">>]
           checked == ensure_check(r2, "g", access_token_info, now)
       IN  run' = [run EXCEPT ![w] =
                 IF ~ok THEN rag_failed(search_raised(r, reply),
                                        "Exception: Search request failed")
                 ELSE IF rag_no_data(body)
                 THEN [r1 EXCEPT !.pc = "done",
                         !.response = [status |-> 200,
                                       response |-> "No relevant content found.",
                                       sources |-> <<>>, error |-> ""]]
                 ELSE IF ex.exc # ""
                 THEN rag_failed([r1 EXCEPT !.log = @ \o <<"extract">>], ex.exc)
                 ELSE checked]
    /\ UNCHANGED <<now, access_token_info, issued, env, call, ret, script>>

\* a route that treats a reply without results as a failure (a fault the
\* properties detect)
api_search_ok_mut(r, results) ==
    IF no_data(results)
    THEN [r EXCEPT !.pc = "failed", !.exc = "Exception: No results",
                   !.response = ErrorResponse(404, "No results")]
    ELSE [r EXCEPT !.pc = "done", !.basic_results = results,
                   !.response = [status |-> 200, response |-> "",
                                 sources |-> <<>>, error |-> ""]]

\* return jsonify(results) (server.py:68-69) for the body search() returned
api_search_ok(r, results) ==
    [r EXCEPT !.pc = "done", !.basic_results = results,
              !.response = [status |-> 200, response |-> "",
                            sources |-> <<>>, error |-> ""]]

\* The search endpoint answers a request of SearchClient.search; api_search
\* returns the body as it is (search_basic.py:48-61, server.py:68-72)
BasicSearchReply(w, ok, reply) ==
    /\ run[w].pc = "s_wait"
    /\ run[w].route = "search"
    /\ LET r == run[w]
       IN  run' = [run EXCEPT ![w] =
                 IF ~ok THEN search_failed(search_raised(r, reply),
                                           "Exception: Search request failed")
                 ELSE api_search_ok(r, reply)]
    /\ UNCHANGED <<now, access_token_info, issued, env, call, ret, script>>

\* The completions endpoint answers (search_advanced.py:233-241,
\* server.py:105-108)
GenReply(w, reply) ==
    /\ run[w].pc = "g_wait"
    /\ LET r == [run[w] EXCEPT !.gen_reply = reply]
           ans == decode_answer(reply)
       IN  run' = [run EXCEPT ![w] =
                 IF reply = "http_error"
                 THEN rag_failed(r, "Exception: Completions request failed")
                 ELSE IF ans.exc # "" THEN rag_failed(r, ans.exc)
                 ELSE [r EXCEPT !.pc = "done",
                         !.response = [status |-> 200, response |-> ans.text,
                                       sources |-> sources_of(r.snippets),
                                       error |-> ""]]]
    /\ UNCHANGED <<now, access_token_info, issued, env, call, ret, script>>

\* The response is sent; the worker thread takes the next request
Finish(w) ==
    /\ run[w].pc \in {"done", "failed", "rejected", "crashed"}
    /\ run' = [run EXCEPT ![w] = IdleRun]
    /\ UNCHANGED <<now, access_token_info, issued, env, call, ret, script>>

\* Sample results of the search endpoint
R1 == Result(TRUE, "T1", "Article", StrSnip(<<"a", "b">>), 5)
R2 == Result(TRUE, "T2", "Video", StrSnip(<<"b">>), 9)
R3 == Result(TRUE, Absent, Absent, AbsentSnip, 7)
RNull == Result(TRUE, "T4", "Article", NullSnip, -1)

SearchBodies ==
    {Body("list", <<>>), Body("absent", <<>>), Body("list", <<R1, R2, R3>>),
     Body("list", <<RNull>>)}

\* config.py:23-28 for the environment values the model starts with
EnvOf(snippetsVar, charsVar) ==
    [max_snippets |-> parse_env_int(snippetsVar, DefaultMaxSnippets),
     max_chars |-> parse_env_int(charsVar, DefaultMaxChars)]

Envs ==
    {EnvOf(NoneVal, NoneVal), EnvOf(StrVal(<<"-", "1">>), StrVal(<<"1">>))}

NoCall == [fn |-> "none"]

\* No stand-alone script is running
NoScript == [kind |-> "none"]

Init ==
    /\ now = 0
    /\ access_token_info = EmptyInfo
    /\ issued = 0
    /\ env \in Envs
    /\ run = [w \in OneWorker |-> IdleRun]
    /\ call = NoCall
    /\ ret = NoCall
    /\ script = NoScript

Next ==
    \/ Tick
    \/ \E w \in DOMAIN run, q \in BOOLEAN, l \in RagLimits, sb \in SortBys :
            ApiRag(w, q, l, sb)
    \/ \E w \in DOMAIN run, q \in BOOLEAN, l \in SearchLimits : ApiSearch(w, q, l)
    \/ \E w \in DOMAIN run, reply \in TokenReplies : GrantReply(w, reply)
    \/ \E w \in DOMAIN run : EnsureReturn(w)
    \/ \E w \in DOMAIN run, b \in SearchBodies : SearchReply(w, TRUE, b)
    \/ \E w \in DOMAIN run, f \in SearchFailures : SearchReply(w, FALSE, f)
    \/ \E w \in DOMAIN run, b \in SearchBodies : BasicSearchReply(w, TRUE, b)
    \/ \E w \in DOMAIN run, f \in SearchFailures : BasicSearchReply(w, FALSE, f)
    \/ \E w \in DOMAIN run, reply \in GenReplies : GenReply(w, reply)
    \/ \E w \in DOMAIN run : Finish(w)

Spec == Init /\ [][Next]_vars

\* Two worker threads serve requests concurrently and share the token
\* manager; the requests and answers are drawn from smaller sets.
InitConc ==
    /\ now = 0
    /\ access_token_info = EmptyInfo
    /\ issued = 0
    /\ env = EnvOf(NoneVal, NoneVal)
    /\ run = [w \in TwoWorkers |-> IdleRun]
    /\ call = NoCall
    /\ ret = NoCall
    /\ script = NoScript

NextConc ==
    \/ Tick
    \/ \E w \in DOMAIN run : ApiRag(w, TRUE, Missing, DefaultSortBy)
    \/ \E w \in DOMAIN run, reply \in TokenReplies : GrantReply(w, reply)
    \/ \E w \in DOMAIN run : EnsureReturn(w)
    \/ \E w \in DOMAIN run : SearchReply(w, TRUE, Body("list", <<R1, R2, R3>>))
    \/ \E w \in DOMAIN run : SearchReply(w, FALSE, Failure(500, Absent))
    \/ \E w \in DOMAIN run, reply \in {"http_error", "content"} : GenReply(w, reply)
    \/ \E w \in DOMAIN run : Finish(w)

SpecConc == InitConc /\ [][NextConc]_vars

----------------------------------------------------------------------------
\* Helpers of the properties

IsPrefix(s, t) == Len(s) <= Len(t) /\ \A i \in 1..Len(s) : s[i] = t[i]

Count(x, s) == Cardinality({i \in 1..Len(s) : s[i] = x})

\* What worker w appends to its log in a step
Appended(w) ==
    IF Len(run'[w].log) > Len(run[w].log)
    THEN SubSeq(run'[w].log, Len(run[w].log) + 1, Len(run'[w].log))
    ELSE <<>>

\* The cached credential has expires_at = T and now <= T - 60
WithinBuffer ==
    /\ ~access_token_info.empty
    /\ access_token_info.has_expires_at
    /\ now <= (access_token_info.expires_at - 60) * SubSec

\* C1: an ensure_valid_token call made while a cached credential has
\* now <= expires_at - 60 sends no grant request and returns the cached
\* access token; a call made later, or with no cached credential, sends
\* exactly one grant request before it returns.
C1_ReuseOrOneGrant ==
    [][\A w \in DOMAIN run :
        /\ Count("check", Appended(w)) = 1 =>
              IF WithinBuffer
              THEN /\ Count("grant", Appended(w)) = 0
                   /\ run'[w].pc \in {"s_ret", "g_ret"}
              ELSE /\ Count("grant", Appended(w)) = 1
                   /\ run'[w].pc \in {"s_grant", "g_grant"}
        /\ Count("check", Appended(w)) = 0 => Count("grant", Appended(w)) = 0
        /\ (run[w].pc \in {"s_ret", "g_ret"} /\ run'[w].pc # run[w].pc
                /\ access_token_info.has_access_token) =>
              /\ run'[w].pc \in {"s_wait", "g_wait"}
              /\ run'[w].token = access_token_info.access_token
              /\ access_token_info' = access_token_info
      ]_vars

\* A run reused the cached token for its search and, the buffer reached,
\* refreshed it for its generation request
C1_Witness ==
    \E w \in DOMAIN run :
        /\ run[w].log = <<"check", "search", "extract", "compose", "check", "grant">>
        /\ run[w].token = access_token_info.access_token

\* C2: concurrent callers that find the credential missing or expired send
\* one grant request between them (a refresh in flight is waited for).
C2_SingleFlight ==
    Cardinality({w \in DOMAIN run : run[w].pc \in {"s_grant", "g_grant"}}) <= 1

\* C3: whenever ensure_valid_token returns a token and the caller attaches
\* it to its request, now <= expires_at - 60 holds of the credential.
C3_NeverPastBuffer ==
    [][\A w \in DOMAIN run :
        (run[w].pc \in {"s_ret", "g_ret"} /\ run'[w].pc \in {"s_wait", "g_wait"})
            => now <= (access_token_info.expires_at - 60) * SubSec
      ]_vars

PipelineOrder == <<"check", "search", "extract", "compose", "check", "generate">>

StepsOf(log) == SelectSeq(log, LAMBDA e : e # "grant")

\* C4: the steps of a run occur in the order authenticate, search, extract,
\* compose, generate; a generation request is sent only after the search
\* of the run returned a non-empty result list and the snippets and the
\* context were computed from it; a failed search sends none.
C4_GenerateOnlyAfterSearch ==
    \A w \in DOMAIN run :
        /\ IsPrefix(StepsOf(run[w].log), PipelineOrder)
        /\ Count("generate", run[w].log) = 1 =>
              /\ run[w].results.data_kind = "list"
              /\ Len(run[w].results.data) > 0
              /\ Count("extract", run[w].log) = 1
              /\ Count("compose", run[w].log) = 1
        /\ run[w].exc = "Exception: Search request failed" =>
              Count("generate", run[w].log) = 0

C4_Witness ==
    \E w \in DOMAIN run :
        /\ run[w].pc = "g_wait"
        /\ StepsOf(run[w].log) = PipelineOrder
        /\ Len(run[w].snippets) > 0

\* The search of worker w returned successfully with no results
ZeroResults(w) ==
    \/ run[w].results.data_kind \in {"absent", "null"}
    \/ run[w].results.data_kind = "list" /\ Len(run[w].results.data) = 0

\* C5: a run whose search returns zero results ends successfully with the
\* answer "No relevant content found." and no sources, having sent no
\* generation request and made no second token check.
C5_ZeroResultsShortCircuit ==
    \A w \in DOMAIN run :
        ZeroResults(w) =>
            /\ run[w].pc = "done"
            /\ run[w].response =
                 [status |-> 200, response |-> "No relevant content found.",
                  sources |-> <<>>, error |-> ""]
            /\ Count("generate", run[w].log) = 0
            /\ Count("check", run[w].log) = 1

C5_Witness ==
    \E w \in DOMAIN run :
        /\ run[w].results = Body("list", <<>>)
        /\ run[w].pc = "done"
        /\ run[w].log = <<"check", "grant", "search">>

\* The kind of step an exception comes from
KindOf(exc) ==
    CASE exc \in {"Exception: Failed to obtain access token",
                  "KeyError: expires_in", "KeyError: access_token"} -> "auth"
      [] exc = "Exception: Search request failed" -> "search"
      [] exc \in {"Exception: Completions request failed", "IndexError"} -> "generation"
      [] OTHER -> "other"

----------------------------------------------------------------------------
\* Direct calls of RAGHelper.extract_snippets

TitleAt == <<"T1", "T2", "T3", "T4", "T5">>

SnippetValues ==
    {NullSnip, AbsentSnip} \cup {StrSnip(t) : t \in SeqsUpTo(Chars, MaxLen)}

\* Result lists of length at most n whose i-th result has the title
\* TitleAt[i]
ResultLists(n) ==
    UNION {{[i \in 1..k |-> Result(TRUE, TitleAt[i], "Article", sn[i], i)] :
                sn \in [1..k -> SnippetValues]} : k \in 0..n}

ExtractCalls(n, len) ==
    {[fn |-> "extract_snippets", results |-> b, max_snippets |-> m,
      max_chars_per_snippet |-> c] :
        b \in {Body("list", d) : d \in ResultLists(n)} \cup {Body("absent", <<>>)},
        m \in (-1)..(n + 1), c \in (-1)..(len + 1)}

InitExtract ==
    /\ now = 0
    /\ access_token_info = EmptyInfo
    /\ issued = 0
    /\ env = EnvOf(NoneVal, NoneVal)
    /\ run = [w \in OneWorker |-> IdleRun]
    /\ call \in ExtractCalls(MaxResults, MaxLen)
    /\ ret = NoCall
    /\ script = NoScript

CallExtract ==
    /\ call.fn = "extract_snippets"
    /\ ret = NoCall
    /\ LET got == extract_snippets(call.results, call.max_snippets,
                                   call.max_chars_per_snippet)
       IN  ret' = [fn |-> "extract_snippets", exc |-> got.exc,
                   snippets |-> got.snippets]
    /\ UNCHANGED <<now, access_token_info, issued, env, run, call, script>>

NextExtract == CallExtract

SpecExtract == InitExtract /\ [][NextExtract]_vars

----------------------------------------------------------------------------
\* Direct calls of normalize_limit and of the entry points' limit handling

LimitChars == {"0", "1", "5", "-", "a"}

LimitValues ==
    {IntVal(n) : n \in {-1, 0, 1, 2, 99, 100, 101, 500}}
        \cup {FloatVal(n) : n \in {-15, 5, 37, 1005}}
        \cup {StrVal(t) : t \in SeqsUpTo(LimitChars, MaxStrLen)}
        \cup {NoneVal, InfVal, ListVal}

Entries ==
    {"search_basic", "search_advanced filter", "search_advanced rag",
     "api_search", "api_rag"}

\* Command-line arguments and query-string parameters are strings; a JSON
\* body field is any JSON value
RawValues(entry) ==
    IF entry = "api_rag" THEN LimitValues \cup {Missing}
    ELSE {v \in LimitValues : v.t = "str"} \cup {Missing}

LimitCalls ==
    {[fn |-> "normalize_limit", value |-> v, fallback |-> f] :
        v \in LimitValues, f \in {5, 10}}
        \cup UNION {{[fn |-> e, value |-> v, fallback |-> 0] : v \in RawValues(e)} :
                        e \in Entries}

InitLimit ==
    /\ now = 0
    /\ access_token_info = EmptyInfo
    /\ issued = 0
    /\ env = EnvOf(NoneVal, NoneVal)
    /\ run = [w \in OneWorker |-> IdleRun]
    /\ call \in LimitCalls
    /\ ret = NoCall
    /\ script = NoScript

CallNormalizeLimit ==
    /\ call.fn = "normalize_limit"
    /\ ret = NoCall
    /\ LET got == normalize_limit(call.value, call.fallback,
                                  LimitMinimum, LimitMaximum)
       IN  ret' = [fn |-> call.fn, ok |-> got.ok, n |-> got.n, exc |-> got.exc]
    /\ UNCHANGED <<now, access_token_info, issued, env, run, call, script>>

\* An entry point computes the limit and, unless an exception escaped,
\* sends the search request with that limit in its payload
CallEntry ==
    /\ call.fn \in Entries
    /\ ret = NoCall
    /\ LET got == entry_limit(call.fn, call.value)
       IN  ret' = [fn |-> call.fn, ok |-> got.ok, n |-> got.n, exc |-> got.exc]
    /\ UNCHANGED <<now, access_token_info, issued, env, run, call, script>>

NextLimit == CallNormalizeLimit \/ CallEntry

SpecLimit == InitLimit /\ [][NextLimit]_vars

----------------------------------------------------------------------------

\* C7: after extraction, the number of snippets is at most max_snippets
\* and every snippet text is at most max_chars_per_snippet long, for the
\* bounds min(limit, RAG_CONTEXT_MAX_SNIPPETS) and
\* RAG_CONTEXT_MAX_CHARS_PER_SNIPPET the route computes from the environment.
C7_SnippetsBounded ==
    \A w \in DOMAIN run :
        (Count("compose", run[w].log) = 1) =>
            /\ Len(run[w].snippets) <= Min(run[w].limit, env.max_snippets)
            /\ \A i \in 1..Len(run[w].snippets) :
                    Len(run[w].snippets[i].text) <= env.max_chars

\* The snippet text of a result: its snippet, or '' when the field is absent
TextOf(result) ==
    IF result.has_props /\ result.snippet.k = "str" THEN result.snippet.v ELSE <<>>

\* C8: for non-negative bounds and results whose snippet is a string (or
\* absent), extract_snippets returns min(len(results), max_snippets)
\* snippets, the i-th one from the i-th result, its text the first
\* max_chars_per_snippet characters of that result's snippet.
C8_ExtractExact ==
    (/\ ret # NoCall /\ ret.fn = "extract_snippets"
     /\ call.max_snippets >= 0 /\ call.max_chars_per_snippet >= 0
     /\ \A i \in 1..Len(call.results.data) : call.results.data[i].snippet.k # "null")
    => /\ ret.exc = ""
       /\ Len(ret.snippets) = Min(Len(call.results.data), call.max_snippets)
       /\ \A i \in 1..Len(ret.snippets) :
            LET src == call.results.data[i]
                n == Min(call.max_chars_per_snippet, Len(TextOf(src)))
            IN  /\ ret.snippets[i].title = src.item_title
                /\ ret.snippets[i].relevance = src.certainty
                /\ Len(ret.snippets[i].text) = n
                /\ \A j \in 1..n : ret.snippets[i].text[j] = TextOf(src)[j]

\* More results than max_snippets, and a text longer than the bound: the
\* list and a text are both cut
C8_Witness ==
    /\ ret # NoCall /\ ret.fn = "extract_snippets" /\ ret.exc = ""
    /\ call.max_snippets = 1 /\ call.max_chars_per_snippet = 1
    /\ Len(call.results.data) = 2
    /\ call.results.data[1].snippet = StrSnip(<<"a", "b">>)
    /\ ret.snippets = <<[text |-> <<"a">>, title |-> "T1", type |-> "Article",
                         relevance |-> 1]>>

\* C9: every limit an entry point puts in a search payload lies in [1, 100].
C9_PayloadLimitInRange ==
    (ret # NoCall /\ ret.fn \in Entries /\ ret.ok) => ret.n \in 1..100

\* The RAG route was given the limit 0 and sent 1
C9_Witness ==
    /\ ret # NoCall /\ ret.fn = "api_rag" /\ ret.ok
    /\ call.value = IntVal(0) /\ ret.n = 1

----------------------------------------------------------------------------
\* Direct calls of the ordering of AdvancedSearchClient.search

\* metadata.certainty in tenths; -1 stands for a result without the field
Certs == {-1, 0, 5, 9}

\* Result lists of length at most n whose i-th result has the title
\* TitleAt[i], so that a result's place in the server's reply is known
SortLists(n) ==
    UNION {{[i \in 1..k |-> Result(TRUE, TitleAt[i], "Article", AbsentSnip, c[i])] :
                c \in [1..k -> Certs]} : k \in 0..n}

SortCalls(n) ==
    {[fn |-> "search", results |-> b, sort_by |-> sb] :
        b \in {Body("list", d) : d \in SortLists(n)} \cup {Body("absent", <<>>)},
        sb \in SortBys}

InitSort ==
    /\ now = 0
    /\ access_token_info = EmptyInfo
    /\ issued = 0
    /\ env = EnvOf(NoneVal, NoneVal)
    /\ run = [w \in OneWorker |-> IdleRun]
    /\ call \in SortCalls(MaxSortLen)
    /\ ret = NoCall
    /\ script = NoScript

CallSearchSort ==
    /\ call.fn = "search"
    /\ ret = NoCall
    /\ ret' = [fn |-> "search",
               results |-> search_sorted(call.results, call.sort_by)]
    /\ UNCHANGED <<now, access_token_info, issued, env, run, call, script>>

NextSort == CallSearchSort

SpecSort == InitSort /\ [][NextSort]_vars

\* The place in the server's reply of the result with title t
PlaceOf(t, data) == CHOOSE j \in 1..Len(data) : data[j].item_title = t

\* C11: search(sort_by="certainty") returns the results of the server's
\* reply, each once, ordered by non-increasing metadata.certainty (a missing
\* certainty counts as 0); results of equal certainty keep the order the
\* server returned them in.
C11_SortedStable ==
    (ret # NoCall /\ ret.fn = "search" /\ call.sort_by = "certainty"
        /\ call.results.data_kind = "list")
    => LET in == call.results.data
           out == ret.results.data
       IN  /\ ret.results.data_kind = "list"
           /\ Len(out) = Len(in)
           /\ \A j \in 1..Len(in) : \E i \in 1..Len(out) : out[i] = in[j]
           /\ \A i, j \in 1..Len(out) :
                i < j =>
                   /\ cert_key(out[i]) >= cert_key(out[j])
                   /\ cert_key(out[i]) = cert_key(out[j]) =>
                        PlaceOf(out[i].item_title, in) < PlaceOf(out[j].item_title, in)

\* The reply 0, 0.9, (none) comes back as 0.9, 0, (none): the result
\* without a certainty ties with 0 and stays behind it
C11_Witness ==
    /\ ret # NoCall /\ ret.fn = "search" /\ call.sort_by = "certainty"
    /\ Len(call.results.data) = 3
    /\ [i \in 1..3 |-> call.results.data[i].certainty] = <<0, 9, -1>>
    /\ [i \in 1..3 |-> ret.results.data[i].item_title] = <<"T2", "T1", "T3">>

\* C12: a run asked to sort by certainty extracts and composes the results
\* by non-increasing certainty (0.9, 0.7, 0.5 for the reply 0.5, 0.9, 0.7);
\* the entry point lets the caller ask for it.
C12_AskedSortHonoured ==
    \A w \in DOMAIN run :
        (run[w].asked_sort = "certainty" /\ Count("compose", run[w].log) = 1)
            => \A i, j \in 1..Len(run[w].snippets) :
                    i < j => run[w].snippets[i].relevance >= run[w].snippets[j].relevance

\* C13: ensure_valid_token fails with an authentication error when the
\* token endpoint answers without success or with a body lacking
\* access_token or expires_in, and a body that has expires_in but no
\* access_token never becomes the cached credential.
C13_BadGrantNotCached ==
    /\ ~access_token_info.empty => access_token_info.has_access_token
    /\ \A w \in DOMAIN run :
          (run[w].pc = "failed" /\ KindOf(run[w].exc) = "auth")
              => run[w].exc = "Exception: Failed to obtain access token"

\* C14: the token manager holds one cached credential; its token and its
\* expiry change only together, in the step in which a grant request
\* returns successfully, and are then both taken from that reply (the
\* old token does not survive next to a new expiry); no other step of any
\* operation changes the credential.
C14_ReplacedOnlyByGrant ==
    [][access_token_info' # access_token_info =>
        /\ \E w \in DOMAIN run :
              /\ run[w].pc \in {"s_grant", "g_grant"}
              /\ run'[w].pc \in {"s_ret", "g_ret"}
        /\ ~access_token_info'.empty
        /\ access_token_info'.has_expires_at
        /\ \E e \in ExpiresIns :
              access_token_info'.expires_at = IntTime(now) + e
        /\ IF issued' = issued + 1
           THEN /\ access_token_info'.has_access_token
                /\ access_token_info'.access_token = issued'
           ELSE /\ issued' = issued
                /\ ~access_token_info'.has_access_token
                /\ access_token_info'.access_token = 0
      ]_vars

\* A second grant replaced a credential that had been granted before
C14_Witness ==
    /\ issued = 2
    /\ access_token_info.has_access_token
    /\ access_token_info.access_token = 2
    /\ \E w \in DOMAIN run : Count("grant", run[w].log) = 1

\* C15: a run sends at most one search request and at most one generation
\* request; the step in which a run fails sends no request, and a failed
\* run sends nothing more.
C15_NoRetry ==
    [][\A w \in DOMAIN run :
        /\ Count("search", run'[w].log) <= 1
        /\ Count("generate", run'[w].log) <= 1
        /\ run'[w].pc = "failed" =>
              Appended(w) \in {<<>>, <<"extract">>}
        /\ run[w].pc = "failed" => Appended(w) = <<>>
      ]_vars

\* The generation request of a run failed after its one search request
C15_Witness ==
    \E w \in DOMAIN run :
        /\ run[w].pc = "failed"
        /\ run[w].exc = "Exception: Completions request failed"
        /\ Count("search", run[w].log) = 1
        /\ Count("generate", run[w].log) = 1

\* The log ends with a token check, with or without its grant request
EndsWithCheck(log) ==
    \/ Len(log) >= 1 /\ log[Len(log)] = "check"
    \/ Len(log) >= 2 /\ log[Len(log)] = "grant" /\ log[Len(log) - 1] = "check"

\* C16: the step that sends a search or a generation request comes directly
\* after a token check of the same run and sends the token that check
\* returned, the cached access token; a token check is made only on the way
\* to a request, never in the step in which a call fails or after it.
C16_CheckBeforeEveryRequest ==
    [][\A w \in DOMAIN run :
        /\ Appended(w) \in {<<"search">>, <<"generate">>} =>
              /\ EndsWithCheck(run[w].log)
              /\ access_token_info.has_access_token
              /\ run'[w].token = access_token_info.access_token
        /\ (Count("search", Appended(w)) + Count("generate", Appended(w)) > 0)
              => Len(Appended(w)) = 1
        /\ Count("check", Appended(w)) > 0 =>
              /\ run'[w].pc \in {"s_grant", "s_ret", "g_grant", "g_ret"}
              /\ run[w].pc \notin {"failed", "s_grant", "g_grant", "s_ret", "g_ret"}
              /\ Count("check", run'[w].log) <=
                    1 + Count("search", run[w].log) + Count("generate", run[w].log)
      ]_vars

\* A run sent its generation request with the token its second check had
\* just obtained
C16_Witness ==
    \E w \in DOMAIN run :
        /\ run[w].pc = "g_wait"
        /\ run[w].log = <<"check", "grant", "search", "extract", "compose",
                          "check", "grant", "generate">>
        /\ run[w].token = 2
        /\ access_token_info.access_token = 2

\* C17: when the completions endpoint answers without success, or with a
\* success body that has no choices, an empty choices list or a choice
\* without message.content, generate_with_context fails with the generation
\* error and the run returns no answer.
C17_UndecodableAnswerFails ==
    \A w \in DOMAIN run :
        run[w].gen_reply \in GenReplies \ {"content"} =>
            /\ run[w].pc = "failed"
            /\ run[w].exc = "Exception: Completions request failed"
            /\ run[w].response.status # 200

----------------------------------------------------------------------------
\* Direct calls of RAGHelper.format_context_for_llm

\* Snippets as extract_snippets produces them
FormatSnippets(len) ==
    {[text |-> t, title |-> ti, type |-> "Article", relevance |-> 5] :
        t \in SeqsUpTo(Chars, len), ti \in {"T1", "N/A"}}

FormatCalls(n, len) ==
    {[fn |-> "format_context_for_llm", snippets |-> sn] :
        sn \in SeqsUpTo(FormatSnippets(len), n)}

InitFormat ==
    /\ now = 0
    /\ access_token_info = EmptyInfo
    /\ issued = 0
    /\ env = EnvOf(NoneVal, NoneVal)
    /\ run = [w \in OneWorker |-> IdleRun]
    /\ call \in FormatCalls(MaxResults, MaxLen)
    /\ ret = NoCall
    /\ script = NoScript

CallFormat ==
    /\ call.fn = "format_context_for_llm"
    /\ ret = NoCall
    /\ ret' = [fn |-> "format_context_for_llm",
               text |-> format_context_for_llm(call.snippets)]
    /\ UNCHANGED <<now, access_token_info, issued, env, run, call, script>>

NextFormat == CallFormat

SpecFormat == InitFormat /\ [][NextFormat]_vars

\* The pieces of s between the occurrences of sep
RECURSIVE SplitOn(_, _)
SplitOn(s, sep) ==
    IF \E i \in 1..Len(s) : s[i] = sep
    THEN LET i == CHOOSE k \in 1..Len(s) :
                    s[k] = sep /\ \A j \in 1..(k - 1) : s[j] # sep
         IN  <<SubSeq(s, 1, i - 1)>> \o SplitOn(SubSeq(s, i + 1, Len(s)), sep)
    ELSE <<s>>

\* The header of the i-th source and the newline that ends it
HeaderOf(i, snippet) ==
    <<"[Source ">> \o IntStr(i) \o <<": ", snippet.title, " (", snippet.type, ")]\n">>

\* C19 as claimed: n blocks in input order joined by "\n---\n", block i
\* being its header, a newline and the snippet text; the empty list gives
\* the empty string.
C19_BlockIsHeaderAndText ==
    (ret # NoCall /\ ret.fn = "format_context_for_llm") =>
        LET n == Len(call.snippets)
            blocks == SplitOn(ret.text, "\n---\n")
        IN  IF n = 0 THEN ret.text = <<>>
            ELSE /\ Len(blocks) = n
                 /\ Count("\n---\n", ret.text) = n - 1
                 /\ \A i \in 1..n :
                        blocks[i] = HeaderOf(i, call.snippets[i]) \o call.snippets[i].text

\* C19 amended: n blocks in input order joined by "\n---\n" (n-1
\* separators), block i being its header, a newline, the snippet text and
\* one more newline; the empty list gives the empty string.
C19_BlockEndsWithNewline ==
    (ret # NoCall /\ ret.fn = "format_context_for_llm") =>
        LET n == Len(call.snippets)
            blocks == SplitOn(ret.text, "\n---\n")
        IN  IF n = 0 THEN ret.text = <<>>
            ELSE /\ Len(blocks) = n
                 /\ Count("\n---\n", ret.text) = n - 1
                 /\ \A i \in 1..n :
                        blocks[i] = HeaderOf(i, call.snippets[i])
                                        \o call.snippets[i].text \o <<"\n">>

\* Two snippets, the second with an empty text
C19_Witness ==
    /\ ret # NoCall /\ ret.fn = "format_context_for_llm"
    /\ Len(call.snippets) = 2
    /\ ret.text = <<"[Source ", "1", ": ", "T1", " (", "Article", ")]\n",
                    "a", "b", "\n", "\n---\n",
                    "[Source ", "2", ": ", "N/A", " (", "Article", ")]\n", "\n">>

\* The result has no snippet text: the properties or the field are absent,
\* or the field is null
LacksSnippet(result) == ~result.has_props \/ result.snippet.k # "str"

\* C20: extract_snippets raises nothing on results that lack a snippet
\* (properties absent, field absent or field null); such a result gives a
\* snippet with empty text and the results after it are extracted too.
C20_MissingSnippetNeverRaises ==
    (/\ ret # NoCall /\ ret.fn = "extract_snippets"
     /\ call.max_snippets >= 0 /\ call.max_chars_per_snippet >= 0
     /\ \E i \in 1..Len(call.results.data) : LacksSnippet(call.results.data[i]))
    => /\ ret.exc = ""
       /\ Len(ret.snippets) = Min(Len(call.results.data), call.max_snippets)
       /\ \A i \in 1..Len(ret.snippets) :
            LacksSnippet(call.results.data[i]) => ret.snippets[i].text = <<>>

\* The pieces of text t occur in s one after the other
Contains(s, t) ==
    \E k \in 0..(Len(s) - Len(t)) : \A j \in 1..Len(t) : s[k + j] = t[j]

\* C21: when the search endpoint answers with a non-success status, the
\* error search() raises holds the status code and, when the body of the
\* response has a detail, that detail.
C21_ErrorCarriesStatusAndDetail ==
    \A w \in DOMAIN run :
        (run[w].pc = "failed" /\ run[w].http_fail.status > 0) =>
            /\ Contains(run[w].raised, IntStr(run[w].http_fail.status))
            /\ run[w].http_fail.detail # Absent =>
                  Contains(run[w].raised, <<run[w].http_fail.detail>>)

\* C22: when the search endpoint answers a request of /api/search, the
\* route fails only if the endpoint's answer was a failure; every success
\* body, one with an empty or absent data list included, is answered with
\* status 200 and is the result the caller gets.
C22_EmptyResultIsSuccess ==
    [][\A w \in DOMAIN run :
        (run[w].route = "search" /\ run[w].pc = "s_wait" /\ run'[w].pc # "s_wait")
            => \/ /\ run'[w].pc = "failed"
                  /\ run'[w].http_fail \in SearchFailures
               \/ /\ run'[w].pc = "done"
                  /\ run'[w].http_fail = NoFailure
                  /\ run'[w].exc = ""
                  /\ run'[w].response.status = 200
                  /\ run'[w].basic_results \in SearchBodies
      ]_vars

\* /api/search answered 200 for a body without a data list
C22_Witness ==
    \E w \in DOMAIN run :
        /\ run[w].route = "search" /\ run[w].pc = "done"
        /\ run[w].basic_results = Body("absent", <<>>)
        /\ run[w].response.status = 200

----------------------------------------------------------------------------
\* Direct calls of the payload construction of generate_with_context

Prompts == {NoPrompt, "", "Answer in one sentence."}

Queries == {"q1", "q2"}

PayloadCalls(len) ==
    {[fn |-> "generate_with_context", query |-> q,
      context |-> format_context_for_llm(sn), system_prompt |-> p] :
        q \in Queries, sn \in SeqsUpTo(FormatSnippets(len), 1), p \in Prompts}

InitPayload ==
    /\ now = 0
    /\ access_token_info = EmptyInfo
    /\ issued = 0
    /\ env = EnvOf(NoneVal, NoneVal)
    /\ run = [w \in OneWorker |-> IdleRun]
    /\ call \in PayloadCalls(MaxLen)
    /\ ret = NoCall
    /\ script = NoScript

CallBuildPayload ==
    /\ call.fn = "generate_with_context"
    /\ ret = NoCall
    /\ ret' = [fn |-> "generate_with_context",
               payload |-> build_payload(call.query, call.context,
                                         call.system_prompt)]
    /\ UNCHANGED <<now, access_token_info, issued, env, run, call, script>>

NextPayload == CallBuildPayload

SpecPayload == InitPayload /\ [][NextPayload]_vars

\* C23: generate_with_context sends two messages: first a system message
\* with the caller's system prompt, or the built-in default when none (or
\* an empty one) is given, then a user message made of "Context:\n", the
\* context, "\n\nQuestion: " and the query.
C23_TwoMessages ==
    (ret # NoCall /\ ret.fn = "generate_with_context") =>
        LET msgs == ret.payload.messages
            n == Len(call.context)
        IN  /\ Len(msgs) = 2
            /\ msgs[1].role = "system"
            /\ msgs[1].content =
                 IF call.system_prompt = NoPrompt \/ call.system_prompt = ""
                 THEN <<DefaultSystemPrompt>> ELSE <<call.system_prompt>>
            /\ msgs[2].role = "user"
            /\ Len(msgs[2].content) = n + 3
            /\ msgs[2].content[1] = "Context:\n"
            /\ SubSeq(msgs[2].content, 2, n + 1) = call.context
            /\ msgs[2].content[n + 2] = "\n\nQuestion: "
            /\ msgs[2].content[n + 3] = call.query

\* A call with a prompt of its own and a context of one source
C23_Witness ==
    /\ ret # NoCall /\ ret.fn = "generate_with_context"
    /\ call.system_prompt = "Answer in one sentence."
    /\ Len(call.context) > 0
    /\ ret.payload.messages[1].content = <<"Answer in one sentence.">>
    /\ ret.payload.messages[2].content[Len(call.context) + 3] = "q2"

----------------------------------------------------------------------------
\* RAG runs whose outbound calls all return or time out

InitLive ==
    /\ now = 0
    /\ access_token_info = EmptyInfo
    /\ issued = 0
    /\ env = EnvOf(NoneVal, NoneVal)
    /\ run = [w \in OneWorker |-> IdleRun]
    /\ call = NoCall
    /\ ret = NoCall
    /\ script = NoScript

NextLive ==
    \/ Tick
    \/ \E w \in DOMAIN run, q \in BOOLEAN, l \in {Missing, InfVal} :
            ApiRag(w, q, l, DefaultSortBy)
    \/ \E w \in DOMAIN run, reply \in TokenReplies : GrantReply(w, reply)
    \/ \E w \in DOMAIN run : EnsureReturn(w)
    \/ \E w \in DOMAIN run, b \in SearchBodies : SearchReply(w, TRUE, b)
    \/ \E w \in DOMAIN run, f \in SearchFailures : SearchReply(w, FALSE, f)
    \/ \E w \in DOMAIN run, reply \in GenReplies : GenReply(w, reply)
    \/ \E w \in DOMAIN run : Finish(w)

\* requests.post is given a timeout (auth.py:44, search_advanced.py:70 and
\* 231), so every request sent is answered or fails, and a thread that can
\* take its next step takes it
Fairness ==
    /\ WF_vars(\E w \in DOMAIN run, reply \in TokenReplies : GrantReply(w, reply))
    /\ WF_vars(\E w \in DOMAIN run : EnsureReturn(w))
    /\ WF_vars(\E w \in DOMAIN run :
                  \/ \E b \in SearchBodies : SearchReply(w, TRUE, b)
                  \/ \E f \in SearchFailures : SearchReply(w, FALSE, f))
    /\ WF_vars(\E w \in DOMAIN run, reply \in GenReplies : GenReply(w, reply))

SpecLive == InitLive /\ [][NextLive]_vars /\ Fairness

Terminal == {"done", "failed", "rejected", "crashed"}

\* The place of a step in the sequence of api_rag
Rank(pc) ==
    CASE pc = "idle" -> 0
      [] pc = "s_grant" -> 1
      [] pc = "s_ret" -> 2
      [] pc = "s_wait" -> 3
      [] pc = "g_grant" -> 4
      [] pc = "g_ret" -> 5
      [] pc = "g_wait" -> 6
      [] OTHER -> 7

\* C24: every step of a run moves it forward in the sequence token check,
\* search, extraction and composition, token check, generation, outcome
\* (no step leads back), and every run that has started reaches an outcome:
\* an answer, the canned answer, a rejection or a failure.
C24_RunTerminates ==
    /\ [][\A w \in DOMAIN run :
            run'[w] # run[w] =>
                \/ Rank(run'[w].pc) > Rank(run[w].pc)
                \/ run[w].pc \in Terminal /\ run'[w] = IdleRun]_vars
    /\ \A w \in OneWorker :
            (run[w].pc # "idle") ~> (run[w].pc \in Terminal)

\* A run went through every step, both token checks with a grant, and
\* ended with an answer
C24_Witness ==
    \E w \in DOMAIN run :
        /\ run[w].pc = "done"
        /\ run[w].gen_reply = "content"
        /\ Len(run[w].log) = 8

\* C25: the sources of a run that ended with a generated answer are, in
\* order, the title and type of the blocks of the context that was sent to
\* generation, one entry per block; the blocks come from the first results
\* of the search, so no result beyond them is listed and none of them is
\* left out.
C25_SourcesMatchContext ==
    \A w \in DOMAIN run :
        (run[w].pc = "done" /\ run[w].gen_reply # "") =>
            LET src == run[w].response.sources
                blocks == IF run[w].context = <<>> THEN <<>>
                          ELSE SplitOn(run[w].context, "\n---\n")
                data == run[w].results.data
            IN  /\ Len(src) = Count("[Source ", run[w].context)
                /\ Len(src) = Len(blocks)
                /\ Len(src) = Len(run[w].snippets)
                /\ Len(src) <= Len(data)
                /\ \A i \in 1..Len(src) :
                      /\ blocks[i][2] = IntStr(i)[1]
                      /\ blocks[i][4] = src[i].title
                      /\ blocks[i][6] = src[i].type
                      /\ src[i].title = IF data[i].item_title = Absent
                                        THEN "N/A" ELSE data[i].item_title
                      /\ src[i].type = IF data[i].type = Absent
                                       THEN "N/A" ELSE data[i].type

\* A run answered with the three sources of its three results
C25_Witness ==
    \E w \in DOMAIN run :
        /\ run[w].pc = "done"
        /\ run[w].response.response = "ANSWER"
        /\ run[w].response.sources =
             <<[title |-> "T1", type |-> "Article"],
               [title |-> "T2", type |-> "Video"],
               [title |-> "N/A", type |-> "N/A"]>>

\* The exceptions of a grant request that failed
GrantFailures ==
    {"Exception: Failed to obtain access token", "KeyError: expires_in"}

----------------------------------------------------------------------------
\* completions-grounded/python/main.py: the token check of the script. The
\* clock of the script counts whole seconds.

\* seconds the script's clock reaches
MaxClock == 3

\* timedelta(seconds=expires_in - 300)
GroundedBuffer == 300

\* token_data.get("expires_in", 3600)
GroundedDefaultExpiresIn == 3600

\* expires_in of the token bodies; -1 stands for a body without the field
GroundedExpiresIns == {-1, 299, 300, 301, 302}

\* access_token = None, token_expiry = None (main.py:31-32): token 0 stands
\* for None. issued_at and expires_in record the last refresh, last and
\* returned the outcome of the last call.
GroundedStart ==
    [kind |-> "grounded", pc |-> "idle", clock |-> 0, access_token |-> 0,
     has_expiry |-> FALSE, token_expiry |-> 0, n |-> 0, issued_at |-> 0,
     expires_in |-> 0, last |-> "none", returned |-> 0]

\* an expiry with the buffer of one minute (a fault the properties detect)
grounded_expiry_mut(t, expires_in) == t + expires_in - 60

\* datetime.now() + timedelta(seconds=expires_in - 300) (main.py:77)
grounded_expiry(t, expires_in) == t + expires_in - GroundedBuffer

\* not access_token or not token_expiry or datetime.now() >= token_expiry
grounded_needs_token(s) ==
    s.access_token = 0 \/ ~s.has_expiry \/ s.clock >= s.token_expiry

GroundedTick ==
    /\ script.kind = "grounded"
    /\ script.clock < MaxClock
    /\ script' = [script EXCEPT !.clock = @ + 1]
    /\ UNCHANGED <<now, access_token_info, issued, env, run, call, ret>>

\* ensure_valid_token is called (main.py:72): the cached token is returned,
\* or a token request is sent
GroundedCall ==
    /\ script.kind = "grounded"
    /\ script.pc = "idle"
    /\ script' = IF grounded_needs_token(script)
                 THEN [script EXCEPT !.pc = "grant", !.last = "none",
                                     !.returned = 0]
                 ELSE [script EXCEPT !.last = "reused",
                                     !.returned = script.access_token]
    /\ UNCHANGED <<now, access_token_info, issued, env, run, call, ret>>

\* The token endpoint answers (main.py:54-59, 73-79): ok is FALSE for a
\* failed request, hasTok for a body with access_token, e its expires_in
GroundedGrant(ok, hasTok, e) ==
    /\ script.kind = "grounded"
    /\ script.pc = "grant"
    /\ (ok /\ hasTok) => script.n < MaxTokens
    /\ LET exp == IF e = -1 THEN GroundedDefaultExpiresIn ELSE e
       IN  script' =
             IF ~ok \/ ~hasTok
             THEN [script EXCEPT !.pc = "idle", !.last = "raised"]
             ELSE [script EXCEPT !.pc = "idle", !.last = "refreshed",
                                 !.n = @ + 1,
                                 !.access_token = script.n + 1,
                                 !.returned = script.n + 1,
                                 !.has_expiry = TRUE,
                                 !.token_expiry = grounded_expiry(script.clock, exp),
                                 !.issued_at = script.clock,
                                 !.expires_in = exp]
    /\ UNCHANGED <<now, access_token_info, issued, env, run, call, ret>>

InitGrounded ==
    /\ now = 0
    /\ access_token_info = EmptyInfo
    /\ issued = 0
    /\ env = EnvOf(NoneVal, NoneVal)
    /\ run = [w \in OneWorker |-> IdleRun]
    /\ call = NoCall
    /\ ret = NoCall
    /\ script = GroundedStart

NextGrounded ==
    \/ GroundedTick
    \/ GroundedCall
    \/ \E ok \in BOOLEAN, hasTok \in BOOLEAN, e \in GroundedExpiresIns :
            GroundedGrant(ok, hasTok, e)

SpecGrounded == InitGrounded /\ [][NextGrounded]_vars

\* The step is a call of ensure_valid_token of the grounded script
GroundedCallStep ==
    /\ script.kind = "grounded" /\ script.pc = "idle"
    /\ script' # script /\ script'.clock = script.clock

\* C27: the grounded script reuses its cached token only in calls made
\* strictly before issue time + expires_in - 300 s; a call made at or after
\* that time requests a new token before it returns one; when expires_in is
\* greater than 300, a call made right after a refresh (no second has
\* passed) reuses the token.
C27_FiveMinuteBuffer ==
    [][GroundedCallStep =>
        LET limit == script.issued_at + script.expires_in - 300
        IN  /\ script'.last = "reused" =>
                  /\ script.access_token # 0
                  /\ script.clock < limit
                  /\ script'.returned = script.access_token
                  /\ script'.pc = "idle"
            /\ (script.access_token = 0 \/ script.clock >= limit) =>
                  /\ script'.pc = "grant"
                  /\ script'.returned = 0
            /\ (script.last = "refreshed" /\ script.expires_in > 300
                    /\ script.clock = script.issued_at) =>
                  script'.last = "reused"
      ]_vars

\* A token with expires_in = 302 was reused one second after it was issued
C27_Witness ==
    /\ script.kind = "grounded"
    /\ script.last = "reused"
    /\ script.expires_in = 302
    /\ script.clock = script.issued_at + 1
    /\ script.returned = script.access_token

----------------------------------------------------------------------------
\* Direct calls of AdvancedSearchClient.filter_by_content_type

\* A reply with a key besides data
FilterBody(kind, data) == [data_kind |-> kind, data |-> data, took |-> "12ms"]

\* has_props and type of the results: no properties, no type, or a type
ItemKinds ==
    {<<FALSE, Absent>>, <<TRUE, Absent>>, <<TRUE, "Article">>, <<TRUE, "Video">>}

FilterLists(n) ==
    UNION {{[i \in 1..k |->
                Result(ik[i][1], TitleAt[i], ik[i][2], AbsentSnip, i)] :
                ik \in [1..k -> ItemKinds]} : k \in 0..n}

ContentTypeLists == {<<>>, <<"Article">>, <<"Video">>, <<"Article", "Video">>}

FilterCalls(n) ==
    {[fn |-> "filter_by_content_type", results |-> b, content_types |-> ct] :
        b \in {FilterBody("list", d) : d \in FilterLists(n)}
                \cup {FilterBody("absent", <<>>)},
        ct \in ContentTypeLists}

InitFilter ==
    /\ now = 0
    /\ access_token_info = EmptyInfo
    /\ issued = 0
    /\ env = EnvOf(NoneVal, NoneVal)
    /\ run = [w \in OneWorker |-> IdleRun]
    /\ call \in FilterCalls(MaxResults)
    /\ ret = NoCall
    /\ script = NoScript

CallFilter ==
    /\ call.fn = "filter_by_content_type"
    /\ ret = NoCall
    /\ ret' = [fn |-> "filter_by_content_type",
               results |-> filter_by_content_type(call.results,
                                                  call.content_types)]
    /\ UNCHANGED <<now, access_token_info, issued, env, run, call, script>>

NextFilter == CallFilter

SpecFilter == InitFilter /\ [][NextFilter]_vars

\* The places of the results of data whose type is one of types
Kept(data, types) ==
    {i \in 1..Len(data) :
        data[i].has_props /\ data[i].type # Absent /\ data[i].type \in types}

\* C28: filter_by_content_type returns the results with data replaced by
\* the items whose properties.type is in content_types, in their order
\* and each once, and with every other key as it was.
C28_FilterIsSubsequence ==
    (ret # NoCall /\ ret.fn = "filter_by_content_type") =>
        LET in == call.results
            out == ret.results
            types == {call.content_types[i] : i \in 1..Len(call.content_types)}
            kept == Kept(in.data, types)
        IN  /\ out.took = in.took
            /\ out.data_kind = in.data_kind
            /\ Len(out.data) = Cardinality(kept)
            /\ \A i \in kept :
                  out.data[Cardinality({j \in kept : j <= i})] = in.data[i]

\* Of a video and an article the article is kept
C28_Witness ==
    /\ ret # NoCall /\ ret.fn = "filter_by_content_type"
    /\ call.content_types = <<"Article">>
    /\ Len(call.results.data) = 2
    /\ call.results.data[1].type = "Video"
    /\ Len(ret.results.data) = 1
    /\ ret.results.data[1].item_title = "T2"
    /\ ret.results.data[1].type = "Article"

----------------------------------------------------------------------------
\* The batch operations: realtime-ingestion batch_process_directory and
\* upload-files upload_batch

\* files a directory holds at most
MaxFiles == 3

\* What happens to a file in ContentProcessor.process_file
\* (realtime-ingestion main.py:136-174)
IngestOutcomes == {"ok", "empty", "upload_fails", "no_message"}

\* What happens to a file in upload_single_file and in the handling of its
\* result (upload-files main.py:99-133, 268-279)
UploadOutcomes == {"ingesting", "duplicates", "other", "raises", "odd_body"}

\* process_file returns True after a successful upload whose response has
\* a message; every exception is caught and gives False
process_file(outcome) == outcome = "ok"

\* the try block of upload_batch counts the file as processed unless
\* upload_single_file or the reading of its result raises
upload_counted(outcome) == outcome \in {"ingesting", "duplicates", "other"}

\* a loop that stops at the first file that fails (a fault the properties
\* detect)
batch_after_mut(s, success) ==
    IF success
    THEN [s EXCEPT !.processed = @ + 1, !.i = @ + 1,
                   !.attempts[s.i] = @ + 1]
    ELSE [s EXCEPT !.failed = @ + 1, !.i = Len(s.files) + 1,
                   !.attempts[s.i] = @ + 1]

\* One round of the loop: the file is attempted and counted
\* (realtime-ingestion main.py:250-257, upload-files main.py:266-285)
batch_after(s, success) ==
    IF success
    THEN [s EXCEPT !.processed = @ + 1, !.i = @ + 1,
                   !.attempts[s.i] = @ + 1]
    ELSE [s EXCEPT !.failed = @ + 1, !.i = @ + 1,
                   !.attempts[s.i] = @ + 1]

\* The script at the start of a batch over files, a list of outcomes
BatchOf(app, files) ==
    [kind |-> "batch", app |-> app, pc |-> "start", files |-> files, i |-> 1,
     processed |-> 0, failed |-> 0,
     attempts |-> [k \in 1..Len(files) |-> 0]]

BatchStarts(n) ==
    {BatchOf("realtime-ingestion", f) : f \in SeqsUpTo(IngestOutcomes, n)}
        \cup {BatchOf("upload-files", f) : f \in SeqsUpTo(UploadOutcomes, n)}

\* The files are listed; without files the operation returns at once
BatchList ==
    /\ script.kind = "batch"
    /\ script.pc = "start"
    /\ script' = [script EXCEPT !.pc = IF script.files = <<>> THEN "none_found"
                                       ELSE "loop"]
    /\ UNCHANGED <<now, access_token_info, issued, env, run, call, ret>>

BatchFile ==
    /\ script.kind = "batch"
    /\ script.pc = "loop"
    /\ script.i <= Len(script.files)
    /\ script' = batch_after(script,
                    IF script.app = "realtime-ingestion"
                    THEN process_file(script.files[script.i])
                    ELSE upload_counted(script.files[script.i]))
    /\ UNCHANGED <<now, access_token_info, issued, env, run, call, ret>>

\* The loop is over and the counts are printed
BatchReport ==
    /\ script.kind = "batch"
    /\ script.pc = "loop"
    /\ script.i > Len(script.files)
    /\ script' = [script EXCEPT !.pc = "done"]
    /\ UNCHANGED <<now, access_token_info, issued, env, run, call, ret>>

InitBatch ==
    /\ now = 0
    /\ access_token_info = EmptyInfo
    /\ issued = 0
    /\ env = EnvOf(NoneVal, NoneVal)
    /\ run = [w \in OneWorker |-> IdleRun]
    /\ call = NoCall
    /\ ret = NoCall
    /\ script \in BatchStarts(MaxFiles)

NextBatch == BatchList \/ BatchFile \/ BatchReport

SpecBatch == InitBatch /\ [][NextBatch]_vars

\* C29: in both batch operations no file is attempted twice, the files
\* before the current one have each been attempted once whatever their
\* outcome, and when the operation reports, every file found has been
\* attempted exactly once and processed + failed is the number of files.
C29_BatchCounts ==
    script.kind = "batch" =>
        /\ \A k \in 1..Len(script.files) :
              script.attempts[k] = IF k < script.i THEN 1 ELSE 0
        /\ script.processed + script.failed = script.i - 1
        /\ script.pc = "done" =>
              /\ script.i = Len(script.files) + 1
              /\ script.processed + script.failed = Len(script.files)
              /\ script.failed =
                    Cardinality({k \in 1..Len(script.files) :
                        script.files[k] \notin
                            {"ok", "ingesting", "duplicates", "other"}})

\* The first of three uploads failed and the two after it were processed
C29_Witness ==
    /\ script.kind = "batch" /\ script.app = "upload-files"
    /\ script.pc = "done"
    /\ script.files = <<"raises", "ingesting", "duplicates">>
    /\ script.processed = 2 /\ script.failed = 1

----------------------------------------------------------------------------
\* upload-files main.py: FileUploader.upload_multiple_files

\* What a path of file_paths is: no such file, a file of an unsupported
\* type, a file that can be opened, a file on which open() raises
PathKinds == {"missing", "unsupported", "ok", "open_fails"}

\* Answers to the upload request
UploadReplies == {"ok", "http_error", "no_reply"}

\* open holds the places in file_paths of the handles that are open, opened
\* those of the handles that were ever opened (open_files), closed those
\* that were closed
UploadOf(paths) ==
    [kind |-> "upload_multiple", pc |-> "token", paths |-> paths, i |-> 1,
     open |-> {}, opened |-> {}, closed |-> {}, exc |-> ""]

UploadStarts(n) == {UploadOf(f) : f \in SeqsUpTo(PathKinds, n)}

\* a function that closes the files after the request only, without a
\* finally block (a fault the properties detect)
upload_finally_mut(s, pc, exc) ==
    IF exc = ""
    THEN [s EXCEPT !.pc = pc, !.exc = exc, !.open = {},
                   !.closed = s.closed \cup s.open]
    ELSE [s EXCEPT !.pc = pc, !.exc = exc]

\* finally: for f in open_files: f.close() (main.py:171-173), on the way to
\* a return or to the caller's handler
upload_finally(s, pc, exc) ==
    [s EXCEPT !.pc = pc, !.exc = exc, !.open = {},
              !.closed = s.closed \cup s.open]

\* token = self.ensure_valid_token() (main.py:137), before the try block
UploadToken(ok) ==
    /\ script.kind = "upload_multiple"
    /\ script.pc = "token"
    /\ script' = IF ok THEN [script EXCEPT !.pc = "loop"]
                 ELSE [script EXCEPT !.pc = "raised", !.exc = "token"]
    /\ UNCHANGED <<now, access_token_info, issued, env, run, call, ret>>

\* One round of the loop over file_paths (main.py:144-155)
UploadOpen ==
    /\ script.kind = "upload_multiple"
    /\ script.pc = "loop"
    /\ script.i <= Len(script.paths)
    /\ LET k == script.paths[script.i]
       IN  script' =
             CASE k \in {"missing", "unsupported"} -> [script EXCEPT !.i = @ + 1]
               [] k = "ok" ->
                    [script EXCEPT !.i = @ + 1, !.open = @ \cup {script.i},
                                   !.opened = @ \cup {script.i}]
               [] OTHER -> upload_finally(script, "raised", "open")
    /\ UNCHANGED <<now, access_token_info, issued, env, run, call, ret>>

\* After the loop (main.py:157-166): without files ValueError is raised,
\* otherwise the upload request is sent
UploadSend ==
    /\ script.kind = "upload_multiple"
    /\ script.pc = "loop"
    /\ script.i > Len(script.paths)
    /\ script' = IF script.opened = {}
                 THEN upload_finally(script, "raised", "no valid files")
                 ELSE [script EXCEPT !.pc = "post"]
    /\ UNCHANGED <<now, access_token_info, issued, env, run, call, ret>>

\* The upload request is answered or fails (main.py:160-169)
UploadReply(reply) ==
    /\ script.kind = "upload_multiple"
    /\ script.pc = "post"
    /\ script' = IF reply = "ok" THEN upload_finally(script, "returned", "")
                 ELSE upload_finally(script, "raised", reply)
    /\ UNCHANGED <<now, access_token_info, issued, env, run, call, ret>>

InitUpload ==
    /\ now = 0
    /\ access_token_info = EmptyInfo
    /\ issued = 0
    /\ env = EnvOf(NoneVal, NoneVal)
    /\ run = [w \in OneWorker |-> IdleRun]
    /\ call = NoCall
    /\ ret = NoCall
    /\ script \in UploadStarts(MaxFiles)

NextUpload ==
    \/ \E ok \in BOOLEAN : UploadToken(ok)
    \/ UploadOpen
    \/ UploadSend
    \/ \E reply \in UploadReplies : UploadReply(reply)

SpecUpload == InitUpload /\ [][NextUpload]_vars

\* C30: when upload_multiple_files has returned or raised, no file handle
\* it opened is open: every handle opened was closed, on each of the paths
\* upload done, upload failed, no valid file, and open() failing on a later
\* file; handles are only open while the function runs.
C30_HandlesClosed ==
    script.kind = "upload_multiple" =>
        /\ script.open \subseteq script.opened
        /\ script.closed \cup script.open = script.opened
        /\ script.pc \in {"returned", "raised"} =>
              /\ script.open = {}
              /\ script.closed = script.opened

\* open() failed on the third file after the first two had been opened
C30_Witness ==
    /\ script.kind = "upload_multiple"
    /\ script.pc = "raised" /\ script.exc = "open"
    /\ script.paths = <<"ok", "ok", "open_fails">>
    /\ script.closed = {1, 2}
    /\ script.open = {}

====
